---------------------------- MODULE Spec2Model ----------------------------
(***************************************************************************)
(* Model of the game session subsystem of vkryukov/gameserver:             *)
(*   - the games and actions tables (src/unnamed/part_005, InitDB),        *)
(*   - the game registry handlers create / join / cancel                   *)
(*     (src/unnamed/part_003),                                             *)
(*   - the websocket hub: one reader goroutine per connection,             *)
(*     processMessage, addConnection, broadcast (src/unnamed/part_005),    *)
(*   - the action log (src/action.go).                                     *)
(*                                                                         *)
(* Every SQL statement, every acquisition of connectedUsersMu and every    *)
(* write to a connection is one atomic step; a handler is the sequence of  *)
(* its steps, so that handlers of different goroutines interleave as the   *)
(* Go scheduler allows.  Strings that the code splits or joins are         *)
(* sequences of one-character strings.  Tokens are integers: 0 is the      *)
(* empty token, 1..NUsers are the user tokens (rows of the tokens table),  *)
(* and generateToken draws the next unused integer (128 random bits in the *)
(* code, so two draws never coincide).                                     *)
(***************************************************************************)
EXTENDS Integers, Sequences, FiniteSets, TLC

\* ------------------------------------------------------------------ bounds
NUsers == 2        \* registered users (rows of users)
NConns == 2        \* websocket connections accepted by handleWebSocket
NHttp == 2         \* HTTP requests that can be in flight together
MaxNew == 1        \* games created in a run of Spec
MaxLobbyNew == 2   \* games created in a run of SpecLobby
MaxEvents == 3     \* client events (HTTP requests, websocket events) in a run of Spec
MaxLobbyReq == 3   \* HTTP requests in a run of SpecLobby
MaxHubMsg == 2     \* websocket events in a run of SpecHub
MaxNum == 3        \* largest action_num a client sends

\* --------------------------------------------------------------- constants
Unassigned == 0 - 1
EmptyToken == 0
WhitePlayer == 0
BlackPlayer == 1
Viewer == 2
InvalidPlayer == 3

Users == 1..NUsers
Conns == 1..NConns
Workers == 1..NHttp

ScreenNames == <<"alice", "bob", "carol", "dave">>
ScreenName(u) == ScreenNames[u]
UserToken(u) == u
BogusToken == NUsers + 1
FirstRoleToken == NUsers + 2

Space == " "
\* what the client of connection c sends as action text and as game result
ActionTexts == <<(<<"a">>), (<<"b">>), (<<"c">>), (<<"d">>)>>
ResultTexts == <<"white wins", "black wins", "draw", "void">>

VARIABLES
    games,            \* games table: id -> row, for the rows that exist
    nextGameId,       \* AUTOINCREMENT counter of games.id
    actions,          \* actions table: set of rows
    nextTok,          \* next value generateToken returns
    connectedUsers,   \* map[int][]Conn
    connectedUsersMu, \* 0 when unlocked, else the connection whose goroutine holds it
    conn,             \* per connection: "open" or "closed"
    wpc,              \* per connection: position of its reader goroutine ("closed": it
                      \* returned on a read error, "refused": on an unauthorized message)
    wloc,             \* per connection: locals of the handler in progress
    inbox,            \* per connection: frames written to it, in order
    nextBid,          \* number of calls of broadcast so far + 1 (history)
    hpc,              \* per HTTP worker: position of the handler
    hloc,             \* per HTTP worker: locals of the handler in progress
    hresp,            \* the HTTP response written last
    evLeft,           \* client events (an HTTP request, a websocket message, a disconnect) still to come
    newLeft           \* games the clients may still create

dbVars == <<games, nextGameId, actions, nextTok>>
hubVars == <<connectedUsers, connectedUsersMu, conn, wpc, wloc, inbox, nextBid>>
httpVars == <<hpc, hloc, hresp, newLeft>>
vars == <<games, nextGameId, actions, nextTok, connectedUsers, connectedUsersMu,
          conn, wpc, wloc, inbox, nextBid, hpc, hloc, hresp, evLeft, newLeft>>

\* ------------------------------------------------------------ strings
\* strings.Split(s, " ") on a sequence of characters
RECURSIVE SplitFrom(_, _, _)
SplitFrom(s, i, cur) ==
    IF i > Len(s) THEN <<cur>>
    ELSE IF s[i] = Space THEN <<cur>> \o SplitFrom(s, i + 1, <<>>)
    ELSE SplitFrom(s, i + 1, Append(cur, s[i]))

Split(s) == SplitFrom(s, 1, <<>>)

\* strings.Join(parts, " ")
RECURSIVE Join(_)
Join(parts) ==
    IF Len(parts) = 0 THEN <<>>
    ELSE IF Len(parts) = 1 THEN parts[1]
    ELSE parts[1] \o <<Space>> \o Join(Tail(parts))

\* ------------------------------------------------------------ identity
\* SELECT id FROM users WHERE screen_name = ?   (0: no such row)
getUserIDFromScreenName(name) ==
    IF \E u \in Users : ScreenName(u) = name
    THEN CHOOSE u \in Users : ScreenName(u) = name
    ELSE 0

\* tokens JOIN users WHERE tokens.token = ?   (0: no such row)
GetUserWithToken(token) ==
    IF token \in Users THEN token ELSE 0

tokenMismatchUser(screenName, token) ==
    IF GetUserWithToken(token) = 0 THEN TRUE
    ELSE ScreenName(GetUserWithToken(token)) # screenName

generateToken == nextTok

\* ------------------------------------------------------------ action log
GameRows(gameID) == {r \in actions : r.game_id = gameID}

GetNumberOfActions(gameID) == Cardinality(GameRows(gameID))

RECURSIVE SortRows(_)
SortRows(S) ==
    IF S = {} THEN <<>>
    ELSE LET m == CHOOSE r \in S : \A q \in S : r.action_num <= q.action_num
         IN  <<m>> \o SortRows(S \ {m})

\* SELECT action_num, action, action_signature FROM actions WHERE game_id = ?
getAllActions(gameID) ==
    LET rows == SortRows(GameRows(gameID))
    IN  [i \in 1..Len(rows) |-> [action_num |-> rows[i].action_num, action |-> rows[i].action]]

\* SELECT action FROM actions WHERE game_id = ? ORDER BY action_num, then strings.Join
GetGameRecord(gameID) ==
    LET rows == SortRows(GameRows(gameID))
    IN  Join([i \in 1..Len(rows) |-> rows[i].action])

\* checkActionValidity without the comparison with the number of actions
checkActionValidityAny(gameID, actionNum) == [err |-> "", got |-> 0, expected |-> 0]

\* "" when the number is the next one, else the error of checkActionValidity
checkActionValidity(gameID, actionNum) ==
    IF actionNum # GetNumberOfActions(gameID) + 1
    THEN [err |-> "invalid action number", got |-> actionNum,
          expected |-> GetNumberOfActions(gameID) + 1]
    ELSE [err |-> "", got |-> 0, expected |-> 0]

\* PRIMARY KEY (game_id, action_num) of the actions table
PrimaryKeyTaken(gameID, actionNum) ==
    \E r \in actions : r.game_id = gameID /\ r.action_num = actionNum

\* saveAction on a table without the primary key
saveActionNoKey(gameID, actionNum, action) ==
    actions \cup {[game_id |-> gameID, action_num |-> actionNum, action |-> action]}

\* the table after INSERT INTO actions(...); unchanged when the key is taken
saveAction(gameID, actionNum, action) ==
    IF PrimaryKeyTaken(gameID, actionNum) THEN actions
    ELSE actions \cup {[game_id |-> gameID, action_num |-> actionNum, action |-> action]}

\* ------------------------------------------------------------ games table
GameExists(id) == id \in DOMAIN games

NoGame ==
    [Id |-> 0, WhitePlayer |-> "", BlackPlayer |-> "", WhiteToken |-> EmptyToken,
     BlackToken |-> EmptyToken, ViewerToken |-> EmptyToken, GameOver |-> FALSE,
     GameResult |-> "", NumActions |-> 0, GameRecord |-> <<>>, Public |-> FALSE]

\* LEFT JOIN users ON user_id = users.id: NULL (read as "") when no user has the id
PlayerName(userId) == IF userId \in Users THEN ScreenName(userId) ELSE ""

\* the Game value of an existing row
GetGameWithId(id) ==
    [Id |-> id,
     WhitePlayer |-> PlayerName(games[id].white_user_id),
     BlackPlayer |-> PlayerName(games[id].black_user_id),
     WhiteToken |-> games[id].white_token,
     BlackToken |-> games[id].black_token,
     ViewerToken |-> games[id].viewer_token,
     GameOver |-> games[id].game_over,
     GameResult |-> games[id].game_result,
     NumActions |-> GetNumberOfActions(id),
     GameRecord |-> GetGameRecord(id),
     Public |-> (games[id].viewer_token = EmptyToken)]

\* validateGameToken that lets anyone view a public game
validateGameTokenOpen(gameID, token) ==
    IF ~GameExists(gameID) THEN [player |-> InvalidPlayer, token |-> EmptyToken]
    ELSE IF token # EmptyToken /\ token = games[gameID].white_token
        THEN [player |-> WhitePlayer, token |-> games[gameID].white_token]
    ELSE IF token # EmptyToken /\ token = games[gameID].black_token
        THEN [player |-> BlackPlayer, token |-> games[gameID].black_token]
    ELSE IF token = games[gameID].viewer_token
        THEN [player |-> Viewer, token |-> games[gameID].viewer_token]
    ELSE [player |-> InvalidPlayer, token |-> EmptyToken]

validateGameToken(gameID, token) ==
    IF ~GameExists(gameID) THEN [player |-> InvalidPlayer, token |-> EmptyToken]
    ELSE LET g == games[gameID]
             userID == GetUserWithToken(token)
         IN  IF token # EmptyToken /\ token = g.white_token
                 THEN [player |-> WhitePlayer, token |-> g.white_token]
             ELSE IF token # EmptyToken /\ token = g.black_token
                 THEN [player |-> BlackPlayer, token |-> g.black_token]
             ELSE IF userID # 0 /\ userID = g.white_user_id
                 THEN [player |-> WhitePlayer, token |-> g.white_token]
             ELSE IF userID # 0 /\ userID = g.black_user_id
                 THEN [player |-> BlackPlayer, token |-> g.black_token]
             ELSE IF token = g.viewer_token /\ g.viewer_token # EmptyToken
                 THEN [player |-> Viewer, token |-> g.viewer_token]
             ELSE [player |-> InvalidPlayer, token |-> EmptyToken]

\* a status check that does not look at game_over
checkGameStatusAny(gameID) ==
    IF ~GameExists(gameID) THEN "sql: no rows in result set" ELSE ""

\* "" when the game is not finished, else the error of checkGameStatus
checkGameStatus(gameID) ==
    IF ~GameExists(gameID) THEN "sql: no rows in result set"
    ELSE IF games[gameID].game_over THEN "game is over"
    ELSE ""

\* an UPDATE that flips game_over
markGameAsFinishedFlip(gameID, result) ==
    IF GameExists(gameID)
    THEN [games EXCEPT ![gameID].game_over = ~@, ![gameID].game_result = result]
    ELSE games

\* UPDATE games SET game_over = 1, game_result = ? WHERE id = ?
markGameAsFinished(gameID, result) ==
    IF GameExists(gameID)
    THEN [games EXCEPT ![gameID].game_over = TRUE, ![gameID].game_result = result]
    ELSE games

\* ------------------------------------------------------------ create
\* the requests clients send to /game/create
CreateRequest(white, whiteToken, black, blackToken, public, record) ==
    [WhitePlayer |-> white, WhiteToken |-> whiteToken, BlackPlayer |-> black,
     BlackToken |-> blackToken, Public |-> public, GameRecord |-> record]

CreateRequests ==
    {CreateRequest(ScreenName(1), UserToken(1), "", EmptyToken, TRUE, <<>>),
     CreateRequest(ScreenName(1), UserToken(1), "", EmptyToken, FALSE, <<"a", " ", "b">>),
     CreateRequest("", EmptyToken, ScreenName(2), UserToken(2), TRUE, <<>>),
     CreateRequest(ScreenName(1), UserToken(1), ScreenName(2), UserToken(2), FALSE, <<>>),
     CreateRequest("", EmptyToken, "", EmptyToken, TRUE, <<>>),
     CreateRequest(ScreenName(1), UserToken(1), ScreenName(1), UserToken(1), TRUE, <<>>),
     CreateRequest(ScreenName(1), UserToken(2), "", EmptyToken, TRUE, <<>>),
     CreateRequest("", UserToken(1), ScreenName(1), EmptyToken, TRUE, <<>>),
     CreateRequest("nobody", UserToken(1), "", EmptyToken, TRUE, <<>>)}

\* CreateGame that does not compare the two names
CreateGameErrorNamesFree(request) ==
    IF request.WhitePlayer # "" /\ getUserIDFromScreenName(request.WhitePlayer) = 0
        THEN "sql: no rows in result set"
    ELSE IF request.WhitePlayer # "" /\ tokenMismatchUser(request.WhitePlayer, request.WhiteToken)
        THEN "incorrect token for white player"
    ELSE IF request.BlackPlayer # "" /\ getUserIDFromScreenName(request.BlackPlayer) = 0
        THEN "sql: no rows in result set"
    ELSE IF request.BlackPlayer # "" /\ tokenMismatchUser(request.BlackPlayer, request.BlackToken)
        THEN "incorrect token for black player"
    ELSE ""

\* "" when CreateGame accepts the request, else its error
CreateGameError(request) ==
    IF request.WhitePlayer # "" /\ getUserIDFromScreenName(request.WhitePlayer) = 0
        THEN "sql: no rows in result set"
    ELSE IF request.WhitePlayer # "" /\ tokenMismatchUser(request.WhitePlayer, request.WhiteToken)
        THEN "incorrect token for white player"
    ELSE IF request.BlackPlayer # "" /\ getUserIDFromScreenName(request.BlackPlayer) = 0
        THEN "sql: no rows in result set"
    ELSE IF request.BlackPlayer # "" /\ tokenMismatchUser(request.BlackPlayer, request.BlackToken)
        THEN "incorrect token for black player"
    ELSE IF request.WhitePlayer = request.BlackPlayer
        THEN "white and black players cannot be the same"
    ELSE ""

\* CreateGame that draws one token for both seats
NewGameRowOneToken(request) ==
    [white_user_id |-> IF request.WhitePlayer = "" THEN Unassigned
                       ELSE getUserIDFromScreenName(request.WhitePlayer),
     black_user_id |-> IF request.BlackPlayer = "" THEN Unassigned
                       ELSE getUserIDFromScreenName(request.BlackPlayer),
     white_token |-> generateToken,
     black_token |-> generateToken,
     viewer_token |-> IF request.Public THEN EmptyToken ELSE generateToken + 2,
     game_over |-> FALSE,
     game_result |-> ""]

\* the row CreateGame inserts into games
NewGameRow(request) ==
    [white_user_id |-> IF request.WhitePlayer = "" THEN Unassigned
                       ELSE getUserIDFromScreenName(request.WhitePlayer),
     black_user_id |-> IF request.BlackPlayer = "" THEN Unassigned
                       ELSE getUserIDFromScreenName(request.BlackPlayer),
     white_token |-> generateToken,
     black_token |-> generateToken + 1,
     viewer_token |-> IF request.Public THEN EmptyToken ELSE generateToken + 2,
     game_over |-> FALSE,
     game_result |-> ""]

\* the rows CreateGame inserts into actions: one per element of
\* strings.Split(request.GameRecord, " "), numbered from 1
NewGameActions(gameID, request) ==
    LET parts == Split(request.GameRecord)
    IN  {[game_id |-> gameID, action_num |-> i, action |-> parts[i]] : i \in 1..Len(parts)}

\* a request is served by a goroutine of its own; the workers are numbered
\* only to tell the requests in flight apart, so a new request takes the
\* first idle one
FreeWorker(h) == hpc[h] = "idle" /\ \A k \in Workers : k < h => hpc[k] # "idle"

NoLocals == [id |-> 0, user |-> 0, newtok |-> EmptyToken, game |-> NoGame,
             whiteNamed |-> FALSE, blackNamed |-> FALSE, auth |-> {}]

\* a response: the handler, the error ("" for 200), the Game or the list of
\* Games in the body, and the users whose tokens the handler verified
Response(op, err, game) ==
    [op |-> op, err |-> err, game |-> game, list |-> <<>>, auth |-> {}]

\* the users whose tokens CreateGame verified
CreateAuth(request) ==
    {getUserIDFromScreenName(n) : n \in {request.WhitePlayer, request.BlackPlayer} \ {""}}

\* createGameHandler up to the commit of CreateGame's transaction, for one of
\* the given requests
CreateGame(h, requests) ==
    /\ FreeWorker(h)
    /\ evLeft > 0
    /\ \E request \in requests :
            /\ evLeft' = evLeft - 1
            /\ IF CreateGameError(request) # ""
               THEN /\ hresp' = Response("create", "cannot create a new game", NoGame)
                    /\ UNCHANGED <<dbVars, hpc, hloc, newLeft>>
               ELSE /\ newLeft > 0
                    /\ newLeft' = newLeft - 1
                    /\ games' = (nextGameId :> NewGameRow(request)) @@ games
                    /\ actions' = actions \cup NewGameActions(nextGameId, request)
                    /\ nextGameId' = nextGameId + 1
                    /\ nextTok' = nextTok + (IF request.Public THEN 2 ELSE 3)
                    /\ hpc' = [hpc EXCEPT ![h] = "create_get"]
                    /\ hloc' = [hloc EXCEPT ![h] = [NoLocals EXCEPT !.id = nextGameId,
                                                       !.whiteNamed = (request.WhitePlayer # ""),
                                                       !.blackNamed = (request.BlackPlayer # ""),
                                                       !.auth = CreateAuth(request)]]
                    /\ UNCHANGED hresp
            /\ UNCHANGED hubVars

\* CreateGame's final GetGameWithId and the redaction of createGameHandler
CreateGameReply(h) ==
    /\ hpc[h] = "create_get"
    /\ hpc' = [hpc EXCEPT ![h] = "idle"]
    /\ hloc' = [hloc EXCEPT ![h] = NoLocals]
    /\ IF ~GameExists(hloc[h].id)
       THEN hresp' = Response("create", "cannot create a new game", NoGame)
       ELSE LET newGame == GetGameWithId(hloc[h].id)
                g1 == IF hloc[h].blackNamed THEN newGame
                      ELSE [newGame EXCEPT !.BlackToken = EmptyToken]
                g2 == IF hloc[h].whiteNamed THEN g1
                      ELSE [g1 EXCEPT !.WhiteToken = EmptyToken]
            IN  hresp' = [Response("create", "", g2) EXCEPT !.auth = hloc[h].auth]
    /\ UNCHANGED <<dbVars, hubVars, evLeft, newLeft>>

\* ------------------------------------------------------------ join
\* the tokens clients present to the HTTP handlers
HttpTokens == {UserToken(u) : u \in Users} \cup {BogusToken}

GameIds == 1..nextGameId

\* a check that finds no game full
IsFullNever(game) == FALSE

IsFull(game) == game.WhitePlayer # "" /\ game.BlackPlayer # ""

\* joinGameHandler up to generateToken, for a request with one of the given ids
JoinGame(h, ids) ==
    /\ FreeWorker(h)
    /\ evLeft > 0
    /\ \E id \in ids, token \in HttpTokens :
            /\ evLeft' = evLeft - 1
            /\ IF ~GameExists(id)
               THEN /\ hresp' = Response("join", "invalid game id", NoGame)
                    /\ UNCHANGED <<hpc, hloc, nextTok>>
               ELSE IF IsFull(GetGameWithId(id))
               THEN /\ hresp' = Response("join", "game is full", NoGame)
                    /\ UNCHANGED <<hpc, hloc, nextTok>>
               ELSE IF GetUserWithToken(token) = 0
               THEN /\ hresp' = Response("join", "incorrect token", NoGame)
                    /\ UNCHANGED <<hpc, hloc, nextTok>>
               ELSE /\ hpc' = [hpc EXCEPT ![h] = "join_update"]
                    /\ hloc' = [hloc EXCEPT ![h] = [NoLocals EXCEPT !.id = id,
                                                       !.user = GetUserWithToken(token),
                                                       !.newtok = generateToken,
                                                       !.game = GetGameWithId(id)]]
                    /\ nextTok' = nextTok + 1
                    /\ UNCHANGED hresp
            /\ UNCHANGED <<games, nextGameId, actions, hubVars, newLeft>>

\* an update that seats the user and leaves the seat's token as it was
updateGameKeepsToken(game, userId, token) ==
    IF ~GameExists(game.Id) THEN games
    ELSE IF game.WhitePlayer = ""
        THEN [games EXCEPT ![game.Id].white_user_id = userId]
    ELSE IF game.BlackPlayer = ""
        THEN [games EXCEPT ![game.Id].black_user_id = userId]
    ELSE games

\* the games table after updateGame(game, userId, token); game is the Game
\* value joinGameHandler read before
updateGame(game, userId, token) ==
    IF ~GameExists(game.Id) THEN games
    ELSE IF game.WhitePlayer = ""
        THEN [games EXCEPT ![game.Id].white_user_id = userId, ![game.Id].white_token = token]
    ELSE IF game.BlackPlayer = ""
        THEN [games EXCEPT ![game.Id].black_user_id = userId, ![game.Id].black_token = token]
    ELSE games

\* joinGameHandler from updateGame to the response
JoinGameUpdate(h) ==
    /\ hpc[h] = "join_update"
    /\ games' = updateGame(hloc[h].game, hloc[h].user, hloc[h].newtok)
    /\ hpc' = [hpc EXCEPT ![h] = "idle"]
    /\ hloc' = [hloc EXCEPT ![h] = NoLocals]
    /\ LET game == hloc[h].game
           reply == IF game.WhitePlayer = ""
                    THEN [game EXCEPT !.BlackToken = EmptyToken,
                                      !.WhitePlayer = ScreenName(hloc[h].user),
                                      !.WhiteToken = hloc[h].newtok]
                    ELSE [game EXCEPT !.WhiteToken = EmptyToken,
                                      !.BlackPlayer = ScreenName(hloc[h].user),
                                      !.BlackToken = hloc[h].newtok]
       IN  hresp' = [Response("join", "", reply) EXCEPT !.auth = {hloc[h].user}]
    /\ UNCHANGED <<nextGameId, actions, nextTok, hubVars, evLeft, newLeft>>

\* ------------------------------------------------------------ cancel
\* cancelGameHandler: GetGameWithId
CancelGame(h) ==
    /\ FreeWorker(h)
    /\ evLeft > 0
    /\ \E id \in GameIds, token \in HttpTokens :
            /\ evLeft' = evLeft - 1
            /\ IF ~GameExists(id)
               THEN /\ hresp' = Response("cancel", "invalid game id", NoGame)
                    /\ UNCHANGED <<hpc, hloc>>
               ELSE /\ hpc' = [hpc EXCEPT ![h] = "cancel_validate"]
                    /\ hloc' = [hloc EXCEPT ![h] = [NoLocals EXCEPT !.id = id, !.newtok = token,
                                                       !.game = GetGameWithId(id)]]
                    /\ UNCHANGED hresp
            /\ UNCHANGED <<dbVars, hubVars, newLeft>>

\* cancelGameHandler: validateGameToken and the two refusals
CancelGameValidate(h) ==
    /\ hpc[h] = "cancel_validate"
    /\ IF validateGameToken(hloc[h].id, hloc[h].newtok).player = InvalidPlayer
       THEN /\ hresp' = Response("cancel", "invalid token", NoGame)
            /\ hpc' = [hpc EXCEPT ![h] = "idle"]
            /\ hloc' = [hloc EXCEPT ![h] = NoLocals]
       ELSE IF IsFull(hloc[h].game)
       THEN /\ hresp' = Response("cancel", "cannot cancel a game that has already started", NoGame)
            /\ hpc' = [hpc EXCEPT ![h] = "idle"]
            /\ hloc' = [hloc EXCEPT ![h] = NoLocals]
       ELSE /\ hpc' = [hpc EXCEPT ![h] = "cancel_delete"]
            /\ UNCHANGED <<hloc, hresp>>
    /\ UNCHANGED <<dbVars, hubVars, evLeft, newLeft>>

\* a DELETE that removes no row
DeleteGameKept(id) == games

\* DELETE FROM games WHERE id = ?
DeleteGame(id) == [g \in DOMAIN games \ {id} |-> games[g]]

\* cancelGameHandler: the DELETE and the response
CancelGameDelete(h) ==
    /\ hpc[h] = "cancel_delete"
    /\ games' = DeleteGame(hloc[h].id)
    /\ hpc' = [hpc EXCEPT ![h] = "idle"]
    /\ hresp' = Response("cancel", "", [NoGame EXCEPT !.Id = hloc[h].id])
    /\ hloc' = [hloc EXCEPT ![h] = NoLocals]
    /\ UNCHANGED <<nextGameId, actions, nextTok, hubVars, evLeft, newLeft>>

\* ------------------------------------------------------------ lists
\* the Game value getGamesWithQuery scans from the row of an existing game;
\* NumActions and GameRecord are not selected and keep their zero values
GameFromQuery(id) ==
    [NoGame EXCEPT !.Id = id,
                   !.WhitePlayer = PlayerName(games[id].white_user_id),
                   !.BlackPlayer = PlayerName(games[id].black_user_id),
                   !.WhiteToken = games[id].white_token,
                   !.BlackToken = games[id].black_token,
                   !.ViewerToken = games[id].viewer_token,
                   !.GameOver = games[id].game_over,
                   !.GameResult = games[id].game_result,
                   !.Public = (games[id].viewer_token # EmptyToken)]

\* g.white_user_id == -1 OR g.black_user_id == -1
HasOpenSeat(id) ==
    games[id].white_user_id = Unassigned \/ games[id].black_user_id = Unassigned

\* the orders in which a query may return the rows of a set of games
Orders(ids) ==
    {o \in [1..Cardinality(ids) -> ids] : \A i, j \in DOMAIN o : i # j => o[i] # o[j]}

\* listGamesByUser without the ORDER BY clause
listGamesByUserUnordered(user) ==
    Orders({g \in DOMAIN games :
               games[g].white_user_id = user \/ games[g].black_user_id = user})

\* the results listGamesByUser may return, as sequences of game ids: the
\* rows of the user's games, ORDER BY (an unassigned seat exists)
listGamesByUser(user) ==
    LET ids == {g \in DOMAIN games :
                   games[g].white_user_id = user \/ games[g].black_user_id = user}
    IN  {o \in Orders(ids) :
            \A i, j \in DOMAIN o : (i < j /\ HasOpenSeat(o[i])) => HasOpenSeat(o[j])}

\* joinableGamesByUser without the condition on the user
joinableGamesOfAnyone(user) ==
    Orders({g \in DOMAIN games : HasOpenSeat(g) /\ games[g].viewer_token = EmptyToken})

\* the results joinableGamesByUser may return, as sequences of game ids
joinableGamesByUser(user) ==
    Orders({g \in DOMAIN games :
               /\ HasOpenSeat(g)
               /\ games[g].viewer_token = EmptyToken
               /\ games[g].white_user_id # user /\ games[g].black_user_id # user})

\* listGamesByUserHandler that returns the rows as read
KeepTokens(game, user) == game

\* listGamesByUserHandler: the tokens of the seats of other users are cleared
ClearOtherTokens(game, user) ==
    LET g1 == IF game.WhitePlayer # ScreenName(user)
              THEN [game EXCEPT !.WhiteToken = EmptyToken] ELSE game
    IN  IF g1.BlackPlayer # ScreenName(user)
        THEN [g1 EXCEPT !.BlackToken = EmptyToken] ELSE g1

\* joinableGamesHandler: both role tokens are cleared
ClearRoleTokens(game) ==
    [game EXCEPT !.WhiteToken = EmptyToken, !.BlackToken = EmptyToken]

\* listGamesByUserHandler
ListGamesByUser(h) ==
    /\ FreeWorker(h)
    /\ evLeft > 0
    /\ \E token \in HttpTokens :
            /\ evLeft' = evLeft - 1
            /\ LET user == GetUserWithToken(token)
               IN  IF user = 0
                   THEN hresp' = Response("list_by_user", "incorrect token", NoGame)
                   ELSE \E rows \in listGamesByUser(user) :
                           hresp' = [Response("list_by_user", "", NoGame) EXCEPT
                                        !.auth = {user},
                                        !.list = [i \in DOMAIN rows |->
                                                     ClearOtherTokens(GameFromQuery(rows[i]), user)]]
            /\ UNCHANGED <<dbVars, hubVars, hpc, hloc, newLeft>>

\* joinableGamesHandler
JoinableGames(h) ==
    /\ FreeWorker(h)
    /\ evLeft > 0
    /\ \E token \in HttpTokens :
            /\ evLeft' = evLeft - 1
            /\ LET user == GetUserWithToken(token)
               IN  IF user = 0
                   THEN hresp' = Response("list_joinable", "incorrect token", NoGame)
                   ELSE \E rows \in joinableGamesByUser(user) :
                           hresp' = [Response("list_joinable", "", NoGame) EXCEPT
                                        !.auth = {user},
                                        !.list = [i \in DOMAIN rows |->
                                                     ClearRoleTokens(GameFromQuery(rows[i]))]]
            /\ UNCHANGED <<dbVars, hubVars, hpc, hloc, newLeft>>

\* ------------------------------------------------------------ hub: frames
\* a WebSocketMessage written to a connection; Message is kept decoded:
\* num/action for an Action payload, text for GameOver and Error,
\* player..actions for GameJoined, actions for FullGame.  bid is the number
\* of the broadcast call that wrote the frame (0 for a direct reply).
NoFrame ==
    [type |-> "", game_id |-> 0, token |-> EmptyToken, num |-> 0, action |-> <<>>,
     text |-> "", expected |-> 0, player |-> InvalidPlayer, game_token |-> EmptyToken,
     white_player |-> "", black_player |-> "", actions |-> <<>>, bid |-> 0]

\* sendJSONMessage(conn, gameId, "Error", err.Error())
ErrorFrame(gameID, text, got, expected) ==
    [NoFrame EXCEPT !.type = "Error", !.game_id = gameID, !.text = text,
                    !.num = got, !.expected = expected]

\* the envelope broadcast for RejectAction and GameOver
GameOverFrame(gameID, text) ==
    [NoFrame EXCEPT !.type = "GameOver", !.game_id = gameID, !.text = text]

\* the envelope of an accepted Action, broadcast as received
ActionFrame(message) ==
    [NoFrame EXCEPT !.type = "Action", !.game_id = message.game_id, !.token = message.token,
                    !.num = message.num, !.action = message.action]

NoMessage ==
    [game_id |-> 0, token |-> EmptyToken, type |-> "", decodable |-> TRUE,
     num |-> 0, action |-> <<>>, text |-> ""]

NoHandler ==
    [message |-> NoMessage, player |-> InvalidPlayer, token |-> EmptyToken,
     white_player |-> "", black_player |-> "", actions |-> <<>>,
     bmsg |-> NoFrame, targets |-> <<>>, bi |-> 0, active |-> <<>>,
     after |-> "", result |-> ""]

\* the user whose client opened connection c
ConnUser(c) == ((c - 1) % NUsers) + 1

\* the tokens the client of connection c puts in its envelopes
ConnTokens(c) == {UserToken(ConnUser(c)), BogusToken}

\* the envelopes the client of connection c sends while playing
PlayMessages(c) ==
    {[NoMessage EXCEPT !.game_id = g, !.token = t, !.type = ty] :
        g \in GameIds, t \in ConnTokens(c), ty \in {"Join", "RejectAction"}}
    \cup {[NoMessage EXCEPT !.game_id = g, !.token = t, !.type = "Action",
                            !.num = n, !.action = ActionTexts[c]] :
        g \in GameIds, t \in ConnTokens(c), n \in 1..MaxNum}
    \cup {[NoMessage EXCEPT !.game_id = g, !.token = t, !.type = "GameOver",
                            !.text = ResultTexts[c]] :
        g \in GameIds, t \in ConnTokens(c)}

\* the other envelopes: a request for the full game, an unknown type, an
\* Action whose payload is not a JSON object
OtherMessages(c) ==
    {[NoMessage EXCEPT !.game_id = g, !.token = t, !.type = ty] :
        g \in GameIds, t \in ConnTokens(c), ty \in {"SendFullGame", "Ping"}}
    \cup {[NoMessage EXCEPT !.game_id = g, !.token = t, !.type = "Action",
                            !.decodable = FALSE] :
        g \in GameIds, t \in ConnTokens(c)}

WsMessages(c) == PlayMessages(c) \cup OtherMessages(c)

Subscribers(gameID) ==
    IF gameID \in DOMAIN connectedUsers THEN connectedUsers[gameID] ELSE <<>>

\* conn.WriteJSON(frame): the frame is delivered when the connection is open
WriteOk(c) == conn[c] = "open"

Deliver(c, frame) == [inbox EXCEPT ![c] = Append(@, frame)]

\* the handler of c returns to conn.ReadMessage()
BackToRead(c) ==
    /\ wpc' = [wpc EXCEPT ![c] = "read"]
    /\ wloc' = [wloc EXCEPT ![c] = NoHandler]

\* handleError(conn, gameID, err) with err # nil, then return
ReplyError(c, frame) ==
    /\ inbox' = IF WriteOk(c) THEN Deliver(c, frame) ELSE inbox
    /\ BackToRead(c)

\* ------------------------------------------------------------ hub: reader
\* listenForWebSocketMessages: ReadMessage fails (peer closed), or the frame
\* is binary or not a JSON envelope; the deferred conn.Close() runs
ReadError(c) ==
    /\ wpc[c] = "read"
    /\ conn[c] = "open"
    /\ evLeft > 0
    /\ evLeft' = evLeft - 1
    /\ wpc' = [wpc EXCEPT ![c] = "closed"]
    /\ conn' = [conn EXCEPT ![c] = "closed"]
    /\ UNCHANGED <<dbVars, httpVars, connectedUsers, connectedUsersMu, wloc, inbox, nextBid>>

\* the position processMessage starts at for a message type
FirstStep(message) ==
    CASE message.type = "Join" -> "join_get"
      [] message.type = "Action" -> IF message.decodable THEN "act_status" ELSE "read"
      [] message.type = "SendFullGame" -> "full_get"
      [] message.type = "RejectAction" -> "bc_lock"
      [] message.type = "GameOver" -> "bc_lock"
      [] OTHER -> "read"

\* the locals processMessage starts with
FirstLocals(message, auth) ==
    [NoHandler EXCEPT
        !.message = message, !.player = auth.player, !.token = auth.token,
        !.bmsg = IF message.type = "RejectAction"
                     THEN GameOverFrame(message.game_id, "Rejected action")
                 ELSE IF message.type = "GameOver"
                     THEN GameOverFrame(message.game_id, message.text)
                 ELSE NoFrame,
        !.after = IF message.type \in {"RejectAction", "GameOver"} THEN "finish" ELSE "",
        !.result = IF message.type = "RejectAction" THEN "Rejected action detected"
                   ELSE IF message.type = "GameOver" THEN message.text
                   ELSE ""]

\* a switch with a silent case for "Ping"
KnownTypesAndPing == {"Join", "Action", "SendFullGame", "RejectAction", "GameOver", "Ping"}

\* the cases of the switch of processMessage
KnownTypes == {"Join", "Action", "SendFullGame", "RejectAction", "GameOver"}

\* a reader that takes every playerType for a valid one
AuthorizedAlways(auth) == TRUE

\* listenForWebSocketMessages: playerType # InvalidPlayer
Authorized(auth) == auth.player # InvalidPlayer

\* listenForWebSocketMessages: one text message is read, decoded and
\* authorized, and processMessage is entered
Receive(c, messages) ==
    /\ wpc[c] = "read"
    /\ conn[c] = "open"
    /\ evLeft > 0
    /\ \E message \in messages :
            /\ evLeft' = evLeft - 1
            /\ LET auth == validateGameToken(message.game_id, message.token)
               IN  IF ~Authorized(auth)
                   THEN /\ wpc' = [wpc EXCEPT ![c] = "refused"]
                        /\ conn' = [conn EXCEPT ![c] = "closed"]
                        /\ UNCHANGED <<wloc, inbox>>
                   ELSE IF message.type \notin KnownTypes
                   THEN /\ inbox' = Deliver(c, ErrorFrame(message.game_id, "Unknown message type", 0, 0))
                        /\ UNCHANGED <<wpc, wloc, conn>>
                   ELSE /\ wpc' = [wpc EXCEPT ![c] = FirstStep(message)]
                        /\ wloc' = [wloc EXCEPT ![c] =
                               IF FirstStep(message) = "read" THEN NoHandler
                               ELSE FirstLocals(message, auth)]
                        /\ UNCHANGED <<conn, inbox>>
            /\ UNCHANGED <<dbVars, httpVars, connectedUsers, connectedUsersMu, nextBid>>

\* ------------------------------------------------------------ hub: Join
\* processMessage "Join": GetGameWithId and getAllActions
JoinRead(c) ==
    /\ wpc[c] = "join_get"
    /\ LET gameID == wloc[c].message.game_id
       IN  IF ~GameExists(gameID)
           THEN ReplyError(c, ErrorFrame(gameID, "sql: no rows in result set", 0, 0))
           ELSE /\ wpc' = [wpc EXCEPT ![c] = "join_add"]
                /\ wloc' = [wloc EXCEPT ![c].white_player = GetGameWithId(gameID).WhitePlayer,
                                        ![c].black_player = GetGameWithId(gameID).BlackPlayer,
                                        ![c].actions = getAllActions(gameID)]
                /\ UNCHANGED inbox
    /\ UNCHANGED <<dbVars, httpVars, connectedUsers, connectedUsersMu, conn, nextBid, evLeft>>

\* Lock() that never waits
MutexIgnored == TRUE

\* connectedUsersMu.Lock() succeeds
MutexFree == connectedUsersMu = 0

\* addConnection(gameID, conn)
addConnection(gameID, c) ==
    (gameID :> Append(Subscribers(gameID), c)) @@ connectedUsers

JoinAdd(c) ==
    /\ wpc[c] = "join_add"
    /\ MutexFree
    /\ connectedUsers' = addConnection(wloc[c].message.game_id, c)
    /\ wpc' = [wpc EXCEPT ![c] = "join_send"]
    /\ UNCHANGED <<dbVars, httpVars, connectedUsersMu, conn, wloc, inbox, nextBid, evLeft>>

GameJoinedFrame(h) ==
    [NoFrame EXCEPT !.type = "GameJoined", !.game_id = h.message.game_id,
                    !.player = h.player, !.game_token = h.token,
                    !.white_player = h.white_player, !.black_player = h.black_player,
                    !.actions = h.actions]

\* processMessage "Join": sendJSONMessage(conn, gameID, "GameJoined", ...)
JoinSend(c) ==
    /\ wpc[c] = "join_send"
    /\ inbox' = IF WriteOk(c) THEN Deliver(c, GameJoinedFrame(wloc[c])) ELSE inbox
    /\ BackToRead(c)
    /\ UNCHANGED <<dbVars, httpVars, connectedUsers, connectedUsersMu, conn, nextBid, evLeft>>

\* processMessage "SendFullGame"
SendFullGame(c) ==
    /\ wpc[c] = "full_get"
    /\ LET gameID == wloc[c].message.game_id
           frame == [NoFrame EXCEPT !.type = "FullGame", !.game_id = gameID,
                                    !.actions = getAllActions(gameID)]
       IN  inbox' = IF WriteOk(c) THEN Deliver(c, frame) ELSE inbox
    /\ BackToRead(c)
    /\ UNCHANGED <<dbVars, httpVars, connectedUsers, connectedUsersMu, conn, nextBid, evLeft>>

\* ------------------------------------------------------------ hub: Action
\* processMessage "Action": checkGameStatus
ActionStatus(c) ==
    /\ wpc[c] = "act_status"
    /\ LET gameID == wloc[c].message.game_id
       IN  IF checkGameStatus(gameID) # ""
           THEN ReplyError(c, ErrorFrame(gameID, checkGameStatus(gameID), 0, 0))
           ELSE /\ wpc' = [wpc EXCEPT ![c] = "act_valid"]
                /\ UNCHANGED <<wloc, inbox>>
    /\ UNCHANGED <<dbVars, httpVars, connectedUsers, connectedUsersMu, conn, nextBid, evLeft>>

\* processMessage "Action": checkActionValidity
ActionValid(c) ==
    /\ wpc[c] = "act_valid"
    /\ LET gameID == wloc[c].message.game_id
           e == checkActionValidity(gameID, wloc[c].message.num)
       IN  IF e.err # ""
           THEN ReplyError(c, ErrorFrame(gameID, e.err, e.got, e.expected))
           ELSE /\ wpc' = [wpc EXCEPT ![c] = "act_save"]
                /\ UNCHANGED <<wloc, inbox>>
    /\ UNCHANGED <<dbVars, httpVars, connectedUsers, connectedUsersMu, conn, nextBid, evLeft>>

\* processMessage "Action": saveAction; on success broadcast comes next
ActionSave(c) ==
    /\ wpc[c] = "act_save"
    /\ LET m == wloc[c].message
       IN  IF saveAction(m.game_id, m.num, m.action) = actions
           THEN /\ ReplyError(c, ErrorFrame(m.game_id, "UNIQUE constraint failed", 0, 0))
                /\ UNCHANGED actions
           ELSE /\ actions' = saveAction(m.game_id, m.num, m.action)
                /\ wpc' = [wpc EXCEPT ![c] = "bc_lock"]
                /\ wloc' = [wloc EXCEPT ![c].bmsg = ActionFrame(m), ![c].after = "read"]
                /\ UNCHANGED inbox
    /\ UNCHANGED <<games, nextGameId, nextTok, httpVars, connectedUsers, connectedUsersMu,
                   conn, nextBid, evLeft>>

\* ------------------------------------------------------------ hub: broadcast
\* broadcast: connectedUsersMu.Lock() and the start of the range loop
BroadcastLock(c) ==
    /\ wpc[c] = "bc_lock"
    /\ MutexFree
    /\ connectedUsersMu' = c
    /\ nextBid' = nextBid + 1
    /\ wpc' = [wpc EXCEPT ![c] = "bc_write"]
    /\ wloc' = [wloc EXCEPT ![c].targets = Subscribers(wloc[c].message.game_id),
                            ![c].bi = 1,
                            ![c].active = <<>>,
                            ![c].bmsg = [@ EXCEPT !.bid = nextBid]]
    /\ UNCHANGED <<dbVars, httpVars, connectedUsers, conn, inbox, evLeft>>

\* broadcast: one iteration of the loop
BroadcastWrite(c) ==
    /\ wpc[c] = "bc_write"
    /\ wloc[c].bi <= Len(wloc[c].targets)
    /\ LET t == wloc[c].targets[wloc[c].bi]
       IN  IF WriteOk(t)
           THEN /\ inbox' = Deliver(t, wloc[c].bmsg)
                /\ wloc' = [wloc EXCEPT ![c].bi = @ + 1, ![c].active = Append(@, t)]
                /\ UNCHANGED conn
           ELSE /\ conn' = [conn EXCEPT ![t] = "closed"]
                /\ wloc' = [wloc EXCEPT ![c].bi = @ + 1]
                /\ UNCHANGED inbox
    /\ UNCHANGED <<dbVars, httpVars, connectedUsers, connectedUsersMu, wpc, nextBid, evLeft>>

\* a store that keeps the entry of a game whose list has become empty
StoreActiveKeepsEmpty(gameID, active) ==
    (gameID :> active) @@ connectedUsers

\* connectedUsers after the loop: the list is replaced, an empty one deleted
StoreActive(gameID, active) ==
    IF Len(active) = 0
    THEN [g \in DOMAIN connectedUsers \ {gameID} |-> connectedUsers[g]]
    ELSE (gameID :> active) @@ connectedUsers

\* broadcast: the end of the loop and the deferred Unlock
BroadcastDone(c) ==
    /\ wpc[c] = "bc_write"
    /\ wloc[c].bi > Len(wloc[c].targets)
    /\ connectedUsers' = StoreActive(wloc[c].message.game_id, wloc[c].active)
    /\ connectedUsersMu' = 0
    /\ IF wloc[c].after = "finish"
       THEN /\ wpc' = [wpc EXCEPT ![c] = "finish"]
            /\ wloc' = [wloc EXCEPT ![c].targets = <<>>, ![c].bi = 0, ![c].active = <<>>,
                                    ![c].bmsg = NoFrame]
       ELSE BackToRead(c)
    /\ UNCHANGED <<dbVars, httpVars, conn, inbox, nextBid, evLeft>>

\* processMessage "RejectAction" / "GameOver": markGameAsFinished
Finish(c) ==
    /\ wpc[c] = "finish"
    /\ games' = markGameAsFinished(wloc[c].message.game_id, wloc[c].result)
    /\ BackToRead(c)
    /\ UNCHANGED <<nextGameId, actions, nextTok, httpVars, connectedUsers, connectedUsersMu,
                   conn, inbox, nextBid, evLeft>>

\* ------------------------------------------------------------ specification
InitDb ==
    /\ games = <<>>
    /\ nextGameId = 1
    /\ actions = {}
    /\ nextTok = FirstRoleToken

InitHub ==
    /\ connectedUsers = <<>>
    /\ connectedUsersMu = 0
    /\ conn = [c \in Conns |-> "open"]
    /\ wpc = [c \in Conns |-> "read"]
    /\ wloc = [c \in Conns |-> NoHandler]
    /\ inbox = [c \in Conns |-> <<>>]
    /\ nextBid = 1

InitHttp ==
    /\ hpc = [h \in Workers |-> "idle"]
    /\ hloc = [h \in Workers |-> NoLocals]
    /\ hresp = Response("", "", NoGame)

Init ==
    /\ InitDb
    /\ InitHub
    /\ InitHttp
    /\ evLeft = MaxEvents
    /\ newLeft = MaxNew

HttpStep ==
    \E h \in Workers :
        \/ CreateGame(h, CreateRequests)
        \/ CreateGameReply(h)
        \/ JoinGame(h, GameIds)
        \/ JoinGameUpdate(h)
        \/ CancelGame(h)
        \/ CancelGameValidate(h)
        \/ CancelGameDelete(h)

\* the handlers that only read the tables
ListStep ==
    \E h \in Workers :
        \/ ListGamesByUser(h)
        \/ JoinableGames(h)

HubStep ==
    \E c \in Conns :
        \/ Receive(c, PlayMessages(c))
        \/ ReadError(c)
        \/ JoinRead(c)
        \/ JoinAdd(c)
        \/ JoinSend(c)
        \/ ActionStatus(c)
        \/ ActionValid(c)
        \/ ActionSave(c)
        \/ BroadcastLock(c)
        \/ BroadcastWrite(c)
        \/ BroadcastDone(c)
        \/ Finish(c)

Next == HttpStep \/ HubStep

\* the whole server, from an empty database; the handlers of ListStep write
\* no table and nothing of the hub, and are left to SpecLobby
Spec == Init /\ [][Next]_vars

\* the registry alone: HTTP requests, no websocket traffic
InitLobby ==
    /\ InitDb
    /\ InitHub
    /\ InitHttp
    /\ evLeft = MaxLobbyReq
    /\ newLeft = MaxLobbyNew

NextLobby == HttpStep \/ ListStep

SpecLobby == InitLobby /\ [][NextLobby]_vars

\* the locals of the handler of connection c before it sends GameJoined for
\* its Join of gameID, sent with the token of its user
JoinLocals(c, gameID) ==
    LET message == [NoMessage EXCEPT !.game_id = gameID, !.type = "Join",
                                     !.token = UserToken(ConnUser(c))]
    IN  [FirstLocals(message, validateGameToken(gameID, message.token)) EXCEPT
            !.white_player = GetGameWithId(gameID).WhitePlayer,
            !.black_player = GetGameWithId(gameID).BlackPlayer,
            !.actions = getAllActions(gameID)]

\* the connections among the first k whose user holds a seat of gameID
Players(k, gameID) ==
    SelectSeq([i \in 1..k |-> i],
              LAMBDA c : validateGameToken(gameID, UserToken(ConnUser(c))).player # InvalidPlayer)

\* the hub alone, on a game in progress: user 1 created game 1 as white
\* (public, empty game_record), user 2 joined it as black, and the players
\* among the first k connections have sent Join for it, one after the other
InitPlay ==
    /\ games = (1 :> [white_user_id |-> 1, black_user_id |-> 2,
                       white_token |-> FirstRoleToken, black_token |-> FirstRoleToken + 2,
                       viewer_token |-> EmptyToken, game_over |-> FALSE, game_result |-> ""])
    /\ nextGameId = 2
    /\ actions = {[game_id |-> 1, action_num |-> 1, action |-> <<>>]}
    /\ nextTok = FirstRoleToken + 3
    /\ \E k \in 0..NConns :
          /\ connectedUsers = IF Players(k, 1) = <<>> THEN <<>> ELSE (1 :> Players(k, 1))
          /\ inbox = [c \in Conns |->
                        IF \E i \in 1..Len(Players(k, 1)) : Players(k, 1)[i] = c
                        THEN <<GameJoinedFrame(JoinLocals(c, 1))>> ELSE <<>>]
    /\ connectedUsersMu = 0
    /\ conn = [c \in Conns |-> "open"]
    /\ wpc = [c \in Conns |-> "read"]
    /\ wloc = [c \in Conns |-> NoHandler]
    /\ nextBid = 1
    /\ hpc = [h \in Workers |-> "idle"]
    /\ hloc = [h \in Workers |-> NoLocals]
    /\ hresp = [Response("join", "", [GetGameWithId(1) EXCEPT !.WhiteToken = EmptyToken])
                    EXCEPT !.auth = {2}]
    /\ evLeft = MaxHubMsg
    /\ newLeft = 0

NextHub ==
    \E c \in Conns :
        \/ Receive(c, WsMessages(c))
        \/ ReadError(c)
        \/ JoinRead(c)
        \/ JoinAdd(c)
        \/ JoinSend(c)
        \/ SendFullGame(c)
        \/ ActionStatus(c)
        \/ ActionValid(c)
        \/ ActionSave(c)
        \/ BroadcastLock(c)
        \/ BroadcastWrite(c)
        \/ BroadcastDone(c)
        \/ Finish(c)

SpecHub == InitPlay /\ [][NextHub]_vars

\* ------------------------------------------------------------ properties
ActionNums(gameID) == {r.action_num : r \in GameRows(gameID)}

\* every game id that was ever issued or has rows in the log
KnownGames == (1..(nextGameId - 1)) \cup {r.game_id : r \in actions}

IsFrame(c, i, type, gameID) ==
    inbox[c][i].type = type /\ inbox[c][i].game_id = gameID

\* C1: the action_num values stored for a game are exactly 1..n, n the
\* number of rows stored for the game
C1_ActionNumsGapFree ==
    \A g \in KnownGames : ActionNums(g) = 1..Cardinality(GameRows(g))

\* an Action was appended by the hub after a duplicate of it lost the race
C1_Witness ==
    \E g \in KnownGames, c \in Conns :
        /\ Cardinality(GameRows(g)) >= 2
        /\ \E i \in 1..Len(inbox[c]) :
              IsFrame(c, i, "Error", g) /\ inbox[c][i].text = "UNIQUE constraint failed"

\* the handler of c has saved an Action and has not finished broadcasting it
Broadcasting(c) ==
    wpc[c] \in {"bc_lock", "bc_write"} /\ wloc[c].bmsg.type = "Action"

\* C2: of the handlers that passed the count+1 check with the same
\* (game_id, action_num) at most one stores a row and broadcasts; the others
\* get an Error of their own, which is no broadcast, and every Action frame
\* delivered for the slot is the winner's row
C2_OneWriterPerSlot ==
    /\ \A r1, r2 \in actions :
          (r1.game_id = r2.game_id /\ r1.action_num = r2.action_num) => r1 = r2
    /\ \A c1, c2 \in Conns :
          (c1 # c2 /\ Broadcasting(c1) /\ Broadcasting(c2))
              => ~(wloc[c1].message.game_id = wloc[c2].message.game_id
                   /\ wloc[c1].message.num = wloc[c2].message.num)
    /\ \A c \in Conns : \A i \in 1..Len(inbox[c]) :
          /\ inbox[c][i].type = "Error" => inbox[c][i].bid = 0
          /\ inbox[c][i].type = "Action" =>
                /\ [game_id |-> inbox[c][i].game_id, action_num |-> inbox[c][i].num,
                    action |-> inbox[c][i].action] \in actions
                /\ \A d \in Conns : \A j \in 1..Len(inbox[d]) :
                      (inbox[d][j].type = "Action"
                       /\ inbox[d][j].game_id = inbox[c][i].game_id
                       /\ inbox[d][j].num = inbox[c][i].num)
                          => inbox[d][j].bid = inbox[c][i].bid

\* one connection lost the race for a slot and got the Error, the other
\* connection's Action for the same slot was broadcast to it
C2_Witness ==
    \E c \in Conns : \E i, j \in 1..Len(inbox[c]) :
        /\ inbox[c][i].type = "Error" /\ inbox[c][i].text = "UNIQUE constraint failed"
        /\ inbox[c][j].type = "Action" /\ inbox[c][j].action # ActionTexts[c]
        /\ inbox[c][j].game_id = inbox[c][i].game_id
        /\ \A d \in Conns : wpc[d] \in {"read", "closed", "refused"}

\* C3: once game_over is true for a game no row is inserted for it
C3_NoAppendAfterGameOver ==
    [][\A g \in DOMAIN games :
          games[g].game_over => {r \in actions' : r.game_id = g} = GameRows(g)]_vars

\* C4: game_over never goes back to false and game_result never changes
\* once game_over is true
C4_FinishedIsFrozen ==
    [][\A g \in DOMAIN games : \A k \in DOMAIN games' :
          (g = k /\ games[g].game_over)
              => (games'[k].game_over /\ games'[k].game_result = games[g].game_result)]_vars

\* C5: no subscriber is sent an Action of a game after a GameOver of it
C5_NoActionAfterGameOver ==
    \A c \in Conns : \A i, j \in 1..Len(inbox[c]) :
        (i < j /\ inbox[c][i].type = "GameOver" /\ inbox[c][j].type = "Action")
            => inbox[c][i].game_id # inbox[c][j].game_id

\* C6: the Action broadcasts of a game are sent in the order of the appends,
\* which is the order of action_num
C6_BroadcastsInAppendOrder ==
    \A c \in Conns : \A i, j \in 1..Len(inbox[c]) :
        (i < j /\ inbox[c][i].type = "Action" /\ inbox[c][j].type = "Action"
         /\ inbox[c][i].game_id = inbox[c][j].game_id /\ inbox[c][i].bid # inbox[c][j].bid)
            => inbox[c][i].num < inbox[c][j].num

\* the broadcast frames of inbox[c], as the sequence of their broadcast numbers
Received(c, bid) == \E i \in 1..Len(inbox[c]) : inbox[c][i].bid = bid

Before(c, b1, b2) ==
    \E i, j \in 1..Len(inbox[c]) : i < j /\ inbox[c][i].bid = b1 /\ inbox[c][j].bid = b2

\* C7: two connections never receive two broadcasts in opposite orders
C7_SameOrderEverywhere ==
    \A c1, c2 \in Conns : \A b1, b2 \in 1..(nextBid - 1) :
        (b1 # b2 /\ Before(c1, b1, b2)) => ~Before(c2, b2, b1)

\* two connections have both received the same two broadcasts
C7_Witness ==
    \E c1, c2 \in Conns : \E b1, b2 \in 1..(nextBid - 1) :
        /\ c1 # c2 /\ b1 # b2
        /\ Before(c1, b1, b2)
        /\ Received(c2, b1) /\ Received(c2, b2)

\* no Action of the game is saved and not yet broadcast to the end
Quiescent(gameID) ==
    \A c \in Conns : Broadcasting(c) => wloc[c].message.game_id # gameID

SnapshotNums(frame) == {frame.actions[k].action_num : k \in 1..Len(frame.actions)}

BroadcastNums(c, gameID) ==
    {inbox[c][i].num : i \in {k \in 1..Len(inbox[c]) : IsFrame(c, k, "Action", gameID)}}

\* C8: for a connection that joined a game, the actions of its GameJoined
\* snapshot and of the Action broadcasts it received are the action log
C8_SnapshotAndBroadcastsAreLog ==
    \A c \in Conns : \A i \in 1..Len(inbox[c]) :
        (inbox[c][i].type = "GameJoined" /\ conn[c] = "open"
         /\ Quiescent(inbox[c][i].game_id))
            => SnapshotNums(inbox[c][i]) \cup BroadcastNums(c, inbox[c][i].game_id)
                   = ActionNums(inbox[c][i].game_id)

\* C9: the two seats of a game are never the same user
C9_SeatsDiffer ==
    \A g \in DOMAIN games :
        games[g].white_user_id = games[g].black_user_id
            => games[g].white_user_id = Unassigned

\* C10: a game row is deleted only while a seat is unassigned
C10_CancelOnlyOpenGame ==
    [][\A g \in DOMAIN games :
          g \notin DOMAIN games'
              => (games[g].white_user_id = Unassigned \/ games[g].black_user_id = Unassigned)]_vars

\* C11: a seat that is assigned to a user is never given to another user
\* while the game exists, so the join of one user is not overwritten by the
\* join of another
C11_JoinedSeatIsKept ==
    [][\A g \in DOMAIN games \cap DOMAIN games' :
          /\ games[g].white_user_id # Unassigned
                => games'[g].white_user_id = games[g].white_user_id
          /\ games[g].black_user_id # Unassigned
                => games'[g].black_user_id = games[g].black_user_id]_vars

\* the Game values in the body of the last response
ReturnedGames ==
    IF hresp.err # "" THEN {}
    ELSE IF hresp.op \in {"create", "join"} THEN {hresp.game}
    ELSE {hresp.list[i] : i \in DOMAIN hresp.list}

\* the screen names of the users the caller of the last response proved to be
AuthNames == {ScreenName(u) : u \in hresp.auth}

\* C12: a Game value returned by create, join, list_by_user or list_joinable
\* carries a white (black) token only when the caller authenticated as its
\* white (black) player, and list_joinable returns no token at all
C12_TokensOnlyForOwnSeat ==
    \A v \in ReturnedGames :
        /\ v.WhiteToken # EmptyToken => v.WhitePlayer \in AuthNames
        /\ v.BlackToken # EmptyToken => v.BlackPlayer \in AuthNames
        /\ hresp.op = "list_joinable"
              => /\ v.WhiteToken = EmptyToken
                 /\ v.BlackToken = EmptyToken
                 /\ v.ViewerToken = EmptyToken

\* list_by_user returned a game of two different players with the caller's
\* token and without the opponent's
C12_Witness ==
    /\ hresp.op = "list_by_user"
    /\ \E v \in ReturnedGames :
          /\ v.WhitePlayer # "" /\ v.BlackPlayer # "" /\ v.WhitePlayer # v.BlackPlayer
          /\ (v.WhiteToken = EmptyToken) # (v.BlackToken = EmptyToken)

\* C13: every frame the server wrote to a connection has an empty envelope
\* token
C13_OutboundTokenEmpty ==
    \A c \in Conns : \A i \in 1..Len(inbox[c]) : inbox[c][i].token = EmptyToken

\* C14: in every Game value the server returns, public is true exactly when
\* viewer_token is empty
C14_PublicIffNoViewerToken ==
    \A v \in ReturnedGames : v.Public <=> (v.ViewerToken = EmptyToken)

\* the games with an empty viewer_token, exactly one unassigned seat, and
\* the other seat assigned to somebody else than user
OpenToJoin(user) ==
    {g \in DOMAIN games :
        /\ games[g].viewer_token = EmptyToken
        /\ \/ /\ games[g].white_user_id = Unassigned
              /\ games[g].black_user_id \notin {Unassigned, user}
           \/ /\ games[g].black_user_id = Unassigned
              /\ games[g].white_user_id \notin {Unassigned, user}}

\* C15: list_joinable(u) returns, once each and without tokens, exactly the
\* games with an empty viewer_token and exactly one unassigned seat whose
\* assigned seat is not u
C15_JoinableIsExact ==
    [][(hresp'.op = "list_joinable" /\ hresp'.err = "" /\ hpc' = hpc /\ evLeft' = evLeft - 1)
          => \E u \in Users :
                /\ hresp'.auth = {u}
                /\ {hresp'.list[i].Id : i \in DOMAIN hresp'.list} = OpenToJoin(u)
                /\ Len(hresp'.list) = Cardinality(OpenToJoin(u))
                /\ \A i \in DOMAIN hresp'.list :
                      /\ hresp'.list[i].WhiteToken = EmptyToken
                      /\ hresp'.list[i].BlackToken = EmptyToken
                      /\ hresp'.list[i].ViewerToken = EmptyToken]_vars

\* list_joinable returned some games and left out others
C15_Witness ==
    /\ hresp.op = "list_joinable" /\ hresp.err = ""
    /\ Len(hresp.list) > 0
    /\ \E u \in hresp.auth : OpenToJoin(u) # DOMAIN games /\ OpenToJoin(u) # {}

\* every token value: the empty one, the user tokens, an unknown one, the
\* role tokens issued so far and the next one
Tokens == 0..nextTok

\* the user a user token belongs to, 0 for any other token
TokenUser(token) == IF token \in {UserToken(u) : u \in Users} THEN token ELSE 0

C17_UnauthorizedIsDropped ==
    [][\A c \in Conns :
          /\ (wpc[c] = "read" /\ wpc'[c] \notin {"read", "closed", "refused"})
                => LET auth == validateGameToken(wloc'[c].message.game_id,
                                                 wloc'[c].message.token)
                   IN  /\ auth.player # InvalidPlayer
                       /\ wloc'[c].player = auth.player
                       /\ wloc'[c].token = auth.token
          /\ (wpc[c] # "refused" /\ wpc'[c] = "refused")
                => /\ conn'[c] = "closed"
                   /\ inbox' = inbox
                   /\ UNCHANGED <<games, actions, connectedUsers>>
          /\ wpc[c] = "refused"
                => /\ wpc'[c] = "refused"
                   /\ conn'[c] = "closed"
                   /\ inbox'[c] = inbox[c]]_vars

\* a connection that had been answered on a game was refused a later message
C17_Witness ==
    \E c \in Conns : wpc[c] = "refused" /\ Len(inbox[c]) > 0

\* the authorized envelopes of connection c whose message_type is none of
\* Join, Action, SendFullGame, RejectAction, GameOver
UnknownMessages(c) ==
    {m \in WsMessages(c) :
        /\ m.type \notin {"Join", "Action", "SendFullGame", "RejectAction", "GameOver"}
        /\ validateGameToken(m.game_id, m.token).player # InvalidPlayer}

\* C18: the step that takes an authorized message of unknown type writes one
\* Error frame to the sender and nothing to anyone else, changes no row and
\* no subscription, and leaves the connection open and its reader reading
C18_UnknownTypeGetsError ==
    [][\A c \in Conns :
          (wpc[c] = "read" /\ conn[c] = "open" /\ evLeft' = evLeft - 1)
              => \A m \in UnknownMessages(c) :
                    Receive(c, {m})
                        => /\ \E f \in {ErrorFrame(m.game_id, "Unknown message type", 0, 0)} :
                                 /\ inbox'[c] = Append(inbox[c], f)
                                 /\ f.type = "Error" /\ f.token = EmptyToken
                           /\ \A d \in Conns \ {c} : inbox'[d] = inbox[d]
                           /\ UNCHANGED <<games, actions, connectedUsers, conn, wpc, wloc>>]_vars

\* a connection got the Error for an unknown type and then the answer to
\* its next message
C18_Witness ==
    \E c \in Conns : \E i, j \in 1..Len(inbox[c]) :
        /\ i < j
        /\ inbox[c][i].type = "Error" /\ inbox[c][i].text = "Unknown message type"
        /\ inbox[c][j].type \in {"GameJoined", "FullGame"}

\* the step of the handler of connection c answers its Action with the
\* Error that states the received and the expected number, writes to nobody
\* else, starts no broadcast and changes no row
NumberErrorStep(c) ==
    LET m == wloc[c].message
    IN  /\ \E f \in {ErrorFrame(m.game_id, "invalid action number", m.num,
                                 Cardinality(GameRows(m.game_id)) + 1)} :
              inbox' = [inbox EXCEPT ![c] = Append(@, f)]
        /\ UNCHANGED <<games, actions, connectedUsers, nextBid>>

\* the handler of connection c, at the given position with an Action whose
\* action_num is not count + 1, takes its step
WrongNumberStep(c, position) ==
    /\ wpc[c] = position
    /\ conn[c] = "open"
    /\ wloc[c].message.num # Cardinality(GameRows(wloc[c].message.game_id)) + 1
    /\ wpc'[c] # position

\* C19 as stated: an Action whose action_num differs from count + 1 is
\* answered with the Error stating the received and the expected number
\* (and with nothing else), is not broadcast and changes neither the log
\* nor the game row
C19_WrongNumberAnswered ==
    [][\A c \in Conns :
          /\ WrongNumberStep(c, "act_status") => wpc'[c] = "act_valid"
          /\ WrongNumberStep(c, "act_valid") => (NumberErrorStep(c) /\ wpc'[c] = "read")]_vars

\* C19 amended: the same for an Action whose game was not finished when the
\* handler checked it
C19_WrongNumberAnsweredInPlay ==
    [][\A c \in Conns :
          WrongNumberStep(c, "act_valid") => (NumberErrorStep(c) /\ wpc'[c] = "read")]_vars

\* a connection was answered a wrong number while the game had subscribers
C19_Witness ==
    \E c \in Conns : \E i \in 1..Len(inbox[c]) :
        /\ inbox[c][i].type = "Error" /\ inbox[c][i].text = "invalid action number"
        /\ inbox[c][i].num # inbox[c][i].expected
        /\ Subscribers(inbox[c][i].game_id) # <<>>


\* the handler of connection c, processing a RejectAction at the given
\* position, takes its step
RejectStep(c, position) ==
    /\ wpc[c] = position
    /\ wloc[c].message.type = "RejectAction"
    /\ wpc'[c] # position

\* the frame of the ending broadcast of c is in the inbox of connection t
Sent(c, t) ==
    \E i \in 1..Len(inbox[t]) : inbox[t][i] = wloc[c].bmsg

\* the handler of connection c is about to check the status of a finished
\* game for an Action, and takes its step
LateAction(c) ==
    /\ wpc[c] = "act_status"
    /\ GameExists(wloc[c].message.game_id)
    /\ games[wloc[c].message.game_id].game_over
    /\ wpc'[c] # "act_status"

\* C20: the broadcast of a RejectAction ends with a GameOver frame with text
\* "Rejected action" written to every connection that was on the game's
\* list (a connection that is not open any more aside), the handler then
\* marks the game finished, a finished game stays finished, and every
\* Action whose status check finds the game finished is answered with the
\* Error "game is over" and appends nothing
C20_RejectEndsGame ==
    [][/\ \A c \in Conns :
            /\ RejectStep(c, "bc_write") =>
                  /\ wpc'[c] = "finish"
                  /\ wloc[c].bmsg.type = "GameOver"
                  /\ wloc[c].bmsg.text = "Rejected action"
                  /\ wloc[c].bmsg.game_id = wloc[c].message.game_id
                  /\ \A i \in 1..Len(wloc[c].targets) :
                        conn[wloc[c].targets[i]] = "open" => Sent(c, wloc[c].targets[i])
            /\ RejectStep(c, "finish") =>
                  /\ wpc'[c] = "read"
                  /\ games'[wloc[c].message.game_id].game_over
            /\ LateAction(c) =>
                  /\ wpc'[c] = "read"
                  /\ inbox' = Deliver(c, ErrorFrame(wloc[c].message.game_id, "game is over", 0, 0))
                  /\ UNCHANGED <<games, actions, connectedUsers, nextBid>>
       /\ \A g \in DOMAIN games :
            games[g].game_over => (g \in DOMAIN games' /\ games'[g].game_over)]_vars

\* a RejectAction ended game 1, its GameOver frame reached both players, and
\* a player's later Action was answered "game is over"
C20_Witness ==
    /\ GameExists(1)
    /\ games[1].game_result = "Rejected action detected"
    /\ \A c \in Conns : \E i \in 1..Len(inbox[c]) :
            /\ inbox[c][i].type = "GameOver"
            /\ inbox[c][i].text = "Rejected action"
    /\ \E c \in Conns : \E i \in 1..Len(inbox[c]) :
            /\ inbox[c][i].type = "Error"
            /\ inbox[c][i].text = "game is over"
    /\ Cardinality(GameRows(1)) = 1


\* connection c is on the subscriber list of some game
Subscribed(c) ==
    \E g \in DOMAIN connectedUsers :
        \E i \in 1..Len(connectedUsers[g]) : connectedUsers[g][i] = c

\* C21: a connection whose reader has ended (read error, peer close,
\* malformed envelope or failed authorization) is closed and is on no
\* game's subscriber list, and the hub keeps no empty list
C21_EndedReaderIsUnsubscribed ==
    /\ \A c \in Conns :
          wpc[c] \in {"closed", "refused"} => (conn[c] = "closed" /\ ~Subscribed(c))
    /\ \A g \in DOMAIN connectedUsers : connectedUsers[g] # <<>>


\* both seats of the game are assigned and it is not finished
InProgress(gameID) ==
    /\ GameExists(gameID)
    /\ games[gameID].white_user_id # Unassigned
    /\ games[gameID].black_user_id # Unassigned
    /\ ~games[gameID].game_over

\* C22: every row of the action log is inserted by the handler of an Action
\* message for a game that is in progress at that moment; game creation and
\* an Action for a game awaiting its second player insert none
C22_RowsOnlyFromActionsInPlay ==
    [][actions' # actions =>
          \E c \in Conns :
              /\ wpc[c] = "act_save"
              /\ InProgress(wloc[c].message.game_id)
              /\ actions' = actions \cup {[game_id |-> wloc[c].message.game_id,
                                           action_num |-> wloc[c].message.num,
                                           action |-> wloc[c].message.action]}]_vars


\* no text was stored for the game: it was created from a request with an
\* empty game_record and no Action was accepted for it
WithoutRecord(gameID) == \A r \in GameRows(gameID) : r.action = <<>>

\* C23: a game created without a game_record, before and after its second
\* player joins, has 0 actions and an empty game_record, and the Action with
\* action_num = 1 is the one checkActionValidity accepts for it
C23_NewGameHasNoActions ==
    \A g \in DOMAIN games :
        WithoutRecord(g) =>
            /\ GetNumberOfActions(g) = 0
            /\ GetGameRecord(g) = <<>>
            /\ checkActionValidity(g, 1).err = ""


\* the hub on a game in progress, with clients that also list their games
NextRecord ==
    \/ NextHub
    \/ \E h \in Workers : ListGamesByUser(h)

SpecRecord == InitPlay /\ [][NextRecord]_vars

\* the texts of the actions accepted for the game, in action_num order; the
\* games of SpecRecord were created without a game_record and every Action a
\* client sends carries a text, so these are the rows with a text
AcceptedTexts(gameID) ==
    LET rows == SortRows({r \in GameRows(gameID) : r.action # <<>>})
    IN  [i \in 1..Len(rows) |-> rows[i].action]

\* C24: after the accepted actions a1..an, get(game) reports num_actions = n
\* and game_record = a1 ... an joined by single spaces, and every Game value
\* list_by_user returns for the game reports num_actions = n
C24_RecordIsAcceptedActions ==
    [][/\ (\A g \in DOMAIN games :
              /\ GetGameWithId(g).NumActions = Len(AcceptedTexts(g))
              /\ GetGameWithId(g).GameRecord = Join(AcceptedTexts(g)))'
       /\ (hresp' # hresp /\ hresp'.op = "list_by_user" /\ hresp'.err = "")
              => \A i \in 1..Len(hresp'.list) :
                    hresp'.list[i].NumActions = Len(AcceptedTexts(hresp'.list[i].Id))]_vars


\* the player named for a side is a registered user and the token supplied
\* for that side resolves to that user
SideVerified(player, token) ==
    /\ \E u \in Users : ScreenName(u) = player
    /\ GetUserWithToken(token) # 0
    /\ ScreenName(GetUserWithToken(token)) = player

\* the create requests of C25: neither player named, both named and equal,
\* a named player that does not exist, or a token for a named side that does
\* not resolve to the named player
RefusedRequests ==
    {request \in CreateRequests :
        \/ request.WhitePlayer = "" /\ request.BlackPlayer = ""
        \/ request.WhitePlayer # "" /\ request.WhitePlayer = request.BlackPlayer
        \/ request.WhitePlayer # "" /\ ~SideVerified(request.WhitePlayer, request.WhiteToken)
        \/ request.BlackPlayer # "" /\ ~SideVerified(request.BlackPlayer, request.BlackToken)}

\* C25: a create request of one of these kinds is answered with an error
\* and inserts no game row and no action row
C25_BadCreateIsRefused ==
    [][\A h \in Workers :
          (FreeWorker(h) /\ evLeft' = evLeft - 1)
              => \A request \in RefusedRequests :
                    CreateGame(h, {request})
                        => /\ hresp'.op = "create"
                           /\ hresp'.err # ""
                           /\ hresp'.game = NoGame
                           /\ UNCHANGED <<games, actions, nextGameId, hpc>>]_vars

\* a create was refused and nothing was ever inserted
C25_Witness ==
    /\ hresp.op = "create"
    /\ hresp.err # ""
    /\ nextGameId = 1
    /\ games = <<>>
    /\ actions = {}


\* C26: a successful create stores a game under an id that no game and no
\* action row ever had, with non-empty white and black tokens that differ
\* from each other and from the user tokens of the request, and a viewer
\* token that is non-empty exactly when the request is not public; the
\* response has the token of every seat the request left open cleared
C26_CreatedGameIsFresh ==
    [][\A h \in Workers :
          /\ (FreeWorker(h) /\ games' # games)
                => \A request \in CreateRequests :
                      CreateGame(h, {request})
                          => \E id \in DOMAIN games' \ DOMAIN games :
                                /\ DOMAIN games' = DOMAIN games \cup {id}
                                /\ id \notin KnownGames
                                /\ games'[id].white_token # EmptyToken
                                /\ games'[id].black_token # EmptyToken
                                /\ games'[id].white_token # games'[id].black_token
                                /\ {games'[id].white_token, games'[id].black_token}
                                      \cap {request.WhiteToken, request.BlackToken} = {}
                                /\ (games'[id].viewer_token # EmptyToken) <=> ~request.Public
          /\ (hpc[h] = "create_get" /\ hpc'[h] = "idle" /\ hresp'.err = "")
                => /\ hresp'.op = "create"
                   /\ hresp'.game.Id = hloc[h].id
                   /\ ~hloc[h].whiteNamed => hresp'.game.WhiteToken = EmptyToken
                   /\ ~hloc[h].blackNamed => hresp'.game.BlackToken = EmptyToken]_vars

\* a second game was created, by a user who took one seat, and the response
\* carries the token of that seat only
C26_Witness ==
    /\ hresp.op = "create"
    /\ hresp.err = ""
    /\ hresp.game.Id = 2
    /\ GameExists(2)
    /\ hresp.game.BlackToken = EmptyToken
    /\ hresp.game.WhiteToken = games[2].white_token
    /\ games[2].white_token # EmptyToken


\* the row of a game with a seat given to a user under a token
SeatTaken(row, seat, user, token) ==
    IF seat = WhitePlayer
    THEN [row EXCEPT !.white_user_id = user, !.white_token = token]
    ELSE [row EXCEPT !.black_user_id = user, !.black_token = token]

\* the seats of the game that are unassigned
OpenSeats(gameID) ==
    {seat \in {WhitePlayer, BlackPlayer} :
        IF seat = WhitePlayer THEN games[gameID].white_user_id = Unassigned
        ELSE games[gameID].black_user_id = Unassigned}

\* C27: the step that completes a successful join finds the game with one
\* unassigned seat, gives that seat to the joiner under a fresh role token
\* (not the placeholder, not the joiner's user token), changes nothing else
\* of the row, no other row and no action row, and answers with the joiner's
\* new token and an empty token for the other seat
C27_JoinFillsOpenSeat ==
    [][\A h \in Workers :
          (hpc[h] = "join_update" /\ hpc'[h] = "idle" /\ hresp'.err = "")
              => LET id == hloc[h].id
                     user == hloc[h].user
                     token == hloc[h].newtok
                 IN  /\ GameExists(id)
                     /\ \E seat \in OpenSeats(id) :
                           /\ OpenSeats(id) = {seat}
                           /\ games' = [games EXCEPT ![id] = SeatTaken(@, seat, user, token)]
                           /\ token \notin {EmptyToken, UserToken(user), games[id].white_token,
                                            games[id].black_token, games[id].viewer_token}
                           /\ hresp'.game.Id = id
                           /\ hresp'.game.WhiteToken = (IF seat = WhitePlayer THEN token ELSE EmptyToken)
                           /\ hresp'.game.BlackToken = (IF seat = BlackPlayer THEN token ELSE EmptyToken)
                     /\ actions' = actions]_vars


\* C28: a join request for a game whose two seats are both assigned is
\* answered "game is full" and changes no seat, no token and no other row
C28_JoinOnFullGameIsRefused ==
    [][\A h \in Workers :
          (FreeWorker(h) /\ evLeft' = evLeft - 1)
              => \A id \in DOMAIN games :
                    (OpenSeats(id) = {} /\ JoinGame(h, {id}))
                        => /\ hresp' = Response("join", "game is full", NoGame)
                           /\ UNCHANGED <<games, actions, nextTok, hpc, hloc>>]_vars

\* a join was refused because the game, joined before by its second
\* player, was full
C28_Witness ==
    /\ hresp.op = "join"
    /\ hresp.err = "game is full"
    /\ \E id \in DOMAIN games :
          /\ OpenSeats(id) = {}
          /\ games[id].black_token > games[id].white_token + 1
    /\ \A h \in Workers : hpc[h] = "idle"


\* C29: a cancel goes on to delete only when validateGameToken resolves the
\* caller's token to white, black or viewer of the game; a token with no
\* role is answered "invalid token", a caller with a role on a game read
\* with both seats assigned is answered "cannot cancel a game that has
\* already started", and both leave the games table alone; after the
\* delete of a successful cancel the id has no row, never gets one again,
\* and no list_by_user returns it
C29_CancelContract ==
    [][/\ \A h \in Workers :
            /\ (FreeWorker(h) /\ hpc'[h] = "cancel_validate")
                  => /\ GameExists(hloc'[h].id)
                     /\ hloc'[h].game = GetGameWithId(hloc'[h].id)
                     /\ games' = games
            /\ (hpc[h] = "cancel_validate" /\ hpc'[h] # "cancel_validate")
                  => LET player == validateGameToken(hloc[h].id, hloc[h].newtok).player
                         started == /\ hloc[h].game.WhitePlayer # ""
                                    /\ hloc[h].game.BlackPlayer # ""
                     IN  /\ games' = games
                         /\ player = InvalidPlayer
                               => /\ hpc'[h] = "idle"
                                  /\ hresp' = Response("cancel", "invalid token", NoGame)
                         /\ (player # InvalidPlayer /\ started)
                               => /\ hpc'[h] = "idle"
                                  /\ hresp' = Response("cancel",
                                         "cannot cancel a game that has already started", NoGame)
                         /\ hpc'[h] = "cancel_delete"
                               => (player \in {WhitePlayer, BlackPlayer, Viewer} /\ ~started)
            /\ (hpc[h] = "cancel_delete" /\ hpc'[h] # "cancel_delete")
                  => /\ hresp'.op = "cancel"
                     /\ hresp'.err = ""
                     /\ hresp'.game.Id = hloc[h].id
                     /\ hloc[h].id \notin DOMAIN games'
                     /\ \A g \in DOMAIN games \ {hloc[h].id} : g \in DOMAIN games' /\ games'[g] = games[g]
                     /\ actions' = actions
       /\ \A id \in 1..(nextGameId - 1) : id \notin DOMAIN games => id \notin DOMAIN games'
       /\ (hresp' # hresp /\ hresp'.op = "list_by_user")
             => \A i \in 1..Len(hresp'.list) : hresp'.list[i].Id \in DOMAIN games]_vars

\* a game was created and canceled, and the list of its creator's games is
\* empty
C29_Witness ==
    /\ hresp.op = "list_by_user"
    /\ hresp.err = ""
    /\ hresp.list = <<>>
    /\ hresp.auth = {1}
    /\ nextGameId = 2
    /\ games = <<>>


\* C30: the step that marks a game finished with result r, when the game is
\* already finished with the same result r, changes neither the game row
\* nor the action log
C30_FinishIsIdempotent ==
    [][\A c \in Conns :
          (/\ wpc[c] = "finish"
           /\ wpc'[c] # "finish"
           /\ GameExists(wloc[c].message.game_id)
           /\ games[wloc[c].message.game_id].game_over
           /\ games[wloc[c].message.game_id].game_result = wloc[c].result)
              => (games' = games /\ actions' = actions)]_vars

\* two handlers have finished game 1 with the same result, one after the
\* other, and both are back at reading
C30_Witness ==
    /\ GameExists(1)
    /\ games[1].game_over
    /\ nextBid = 3
    /\ \A c \in Conns : wpc[c] = "read"
    /\ \E c \in Conns : \E i, j \in 1..Len(inbox[c]) :
          /\ i < j
          /\ inbox[c][i].type = "GameOver"
          /\ inbox[c][j].type = "GameOver"
          /\ inbox[c][i].text = inbox[c][j].text


\* the games in which the user holds the white or the black seat
GamesOf(user) ==
    {g \in DOMAIN games : user \in {games[g].white_user_id, games[g].black_user_id}}

\* C31: list_by_user(u) returns, once each, exactly the games in which u is
\* the white or the black user, every game with both seats assigned before
\* every game with an unassigned seat
C31_ListByUserIsExactAndOrdered ==
    [][(hresp'.op = "list_by_user" /\ hresp'.err = "" /\ hpc' = hpc /\ evLeft' = evLeft - 1)
          => \E u \in Users :
                /\ hresp'.auth = {u}
                /\ {hresp'.list[i].Id : i \in DOMAIN hresp'.list} = GamesOf(u)
                /\ Len(hresp'.list) = Cardinality(GamesOf(u))
                /\ \A i, j \in DOMAIN hresp'.list :
                      (OpenSeats(hresp'.list[i].Id) = {} /\ OpenSeats(hresp'.list[j].Id) # {})
                          => i < j]_vars

\* list_by_user returned the caller's full game, created second, before the
\* caller's game that awaits a player
C31_Witness ==
    /\ hresp.op = "list_by_user"
    /\ hresp.err = ""
    /\ Len(hresp.list) = 2
    /\ hresp.list[1].Id = 2
    /\ hresp.list[1].WhitePlayer # "" /\ hresp.list[1].BlackPlayer # ""
    /\ hresp.list[2].Id = 1
    /\ "" \in {hresp.list[2].WhitePlayer, hresp.list[2].BlackPlayer}


\* the places of the inbox of connection t that hold the frame
Copies(t, frame) == {i \in 1..Len(inbox[t]) : inbox[t][i] = frame}

\* C32: the handler that appended an Action goes on to broadcast its
\* envelope, the broadcast takes the game's subscriber list as it is when it
\* starts, and when it ends every connection of that list that is open, the
\* sender included, has received the envelope exactly once
C32_AcceptedActionBroadcastOnce ==
    [][\A c \in Conns :
          /\ (wpc[c] = "act_save" /\ wpc'[c] # "act_save" /\ actions' # actions)
                => /\ wpc'[c] = "bc_lock"
                   /\ wloc'[c].bmsg = ActionFrame(wloc[c].message)
          /\ (wpc[c] = "bc_lock" /\ wpc'[c] # "bc_lock" /\ wloc[c].bmsg.type = "Action")
                => /\ wpc'[c] = "bc_write"
                   /\ wloc'[c].targets = Subscribers(wloc[c].message.game_id)
          /\ (wpc[c] = "bc_write" /\ wpc'[c] # "bc_write" /\ wloc[c].bmsg.type = "Action")
                => \A i \in 1..Len(wloc[c].targets) :
                      conn[wloc[c].targets[i]] = "open"
                          => Cardinality(Copies(wloc[c].targets[i], wloc[c].bmsg)) = 1]_vars


\* the authorized Action messages connection c can send whose payload does
\* not decode as {action_num, action, signature}
UndecodableActions(c) ==
    {m \in WsMessages(c) :
        /\ m.type = "Action"
        /\ ~m.decodable
        /\ validateGameToken(m.game_id, m.token).player # InvalidPlayer}

\* C33: the step that takes an Action whose payload cannot be decoded
\* writes one Error frame to the sender and changes neither the action log
\* nor the games table nor the subscriber lists
C33_UndecodableActionGetsError ==
    [][\A c \in Conns :
          (wpc[c] = "read" /\ conn[c] = "open" /\ evLeft' = evLeft - 1)
              => \A m \in UndecodableActions(c) :
                    Receive(c, {m})
                        => /\ \E i \in 1..Len(inbox'[c]) :
                                 /\ inbox'[c][i].type = "Error"
                                 /\ inbox'[c][i].game_id = m.game_id
                                 /\ Len(inbox'[c]) = Len(inbox[c]) + 1
                                 /\ i = Len(inbox'[c])
                           /\ UNCHANGED <<games, actions, connectedUsers>>]_vars


\* a game in progress with spectators: user 1 created game 1 as white, not
\* public and without a game_record, user 2 joined it as black; nobody has
\* sent Join yet
InitWatch ==
    /\ games = (1 :> [white_user_id |-> 1, black_user_id |-> 2,
                       white_token |-> FirstRoleToken, black_token |-> FirstRoleToken + 3,
                       viewer_token |-> FirstRoleToken + 2,
                       game_over |-> FALSE, game_result |-> ""])
    /\ nextGameId = 2
    /\ actions = {[game_id |-> 1, action_num |-> 1, action |-> <<>>]}
    /\ nextTok = FirstRoleToken + 4
    /\ InitHub
    /\ hpc = [h \in Workers |-> "idle"]
    /\ hloc = [h \in Workers |-> NoLocals]
    /\ hresp = [Response("join", "", [GetGameWithId(1) EXCEPT !.WhiteToken = EmptyToken])
                    EXCEPT !.auth = {2}]
    /\ evLeft = MaxHubMsg
    /\ newLeft = 0

\* the envelopes of connection c sent with the viewer token of their game
ViewerMessages(c) ==
    {[m EXCEPT !.token = games[m.game_id].viewer_token] :
        m \in {w \in WsMessages(c) :
                  GameExists(w.game_id) /\ games[w.game_id].viewer_token # EmptyToken}}

NextWatch ==
    \E c \in Conns :
        \/ Receive(c, ViewerMessages(c))
        \/ ReadError(c)
        \/ JoinRead(c)
        \/ JoinAdd(c)
        \/ JoinSend(c)
        \/ SendFullGame(c)
        \/ ActionStatus(c)
        \/ ActionValid(c)
        \/ ActionSave(c)
        \/ BroadcastLock(c)
        \/ BroadcastWrite(c)
        \/ BroadcastDone(c)
        \/ Finish(c)

\* the hub with clients that hold only the viewer token of the game
SpecWatch == InitWatch /\ [][NextWatch]_vars

\* C34: no step of a handler whose message was authorized as viewer changes
\* the action log or a game row
C34_ViewerChangesNothing ==
    [][\A c \in Conns :
          (/\ wloc[c].player = Viewer
           /\ wpc[c] \notin {"read", "closed", "refused"}
           /\ wpc'[c] # wpc[c])
              => UNCHANGED <<games, actions>>]_vars


\* C35: a handler that finishes a game broadcasts a GameOver frame whose text
\* is the result it is about to store, and its finishing step stores that
\* result in the game row
C35_ResultIsBroadcastText ==
    [][\A c \in Conns :
          /\ (wpc[c] = "read" /\ wpc'[c] = "bc_lock" /\ wloc'[c].after = "finish")
                => /\ wloc'[c].bmsg.type = "GameOver"
                   /\ wloc'[c].bmsg.text = wloc'[c].result
          /\ (wpc[c] = "finish" /\ wpc'[c] # "finish" /\ GameExists(wloc[c].message.game_id))
                => /\ games'[wloc[c].message.game_id].game_over
                   /\ games'[wloc[c].message.game_id].game_result = wloc[c].result]_vars


\* C36: a connection occurs at most once in the subscriber list of a game
C36_SubscribedAtMostOnce ==
    \A g \in DOMAIN connectedUsers :
        \A i, j \in 1..Len(connectedUsers[g]) :
            connectedUsers[g][i] = connectedUsers[g][j] => i = j


\* the handler of connection c is at its direct reply: the statement it
\* executes next is conn.WriteJSON in sendJSONMessage, called without a lock
DirectWriter(c) == wpc[c] = "join_send"

\* the handlers of other connections that are at conn.WriteJSON on connection
\* c inside the loop of broadcast (under connectedUsersMu)
BroadcastWriters(c) ==
    {w \in Conns \ {c} :
        /\ wpc[w] = "bc_write"
        /\ wloc[w].bi <= Len(wloc[w].targets)
        /\ wloc[w].targets[wloc[w].bi] = c}

\* C37: the handler of a connection is never at its direct reply while the
\* handler of another connection is at a broadcast write to the same
\* connection
C37_OneWriterPerConnection ==
    \A c \in Conns : ~(DirectWriter(c) /\ BroadcastWriters(c) # {})


\* C38: a join request on a game that is read finished and with an open
\* seat is refused and changes nothing
C38_FinishedGameIsNotJoined ==
    [][\A h \in Workers :
          (FreeWorker(h) /\ evLeft' = evLeft - 1)
              => \A id \in DOMAIN games :
                    (games[id].game_over /\ OpenSeats(id) # {} /\ JoinGame(h, {id}))
                        => /\ hresp'.op = "join"
                           /\ hresp'.err # ""
                           /\ UNCHANGED <<games, actions, nextTok, hpc, hloc>>]_vars


\* the tokens generateToken has returned so far
RoleTokens == FirstRoleToken..(nextTok - 1)

\* the role tokens stored in the row of game g
RowTokens(g) == {games[g].white_token, games[g].black_token, games[g].viewer_token} \ {EmptyToken}

=============================================================================
